---- MODULE Spec2Model ----
(***************************************************************************)
(* SkyStack PixInsight scripts: the integration ("basic stacking")        *)
(* script, the calibration script and the launch helper, as state         *)
(* machines over the JSON configuration files, the engine calls and the   *)
(* signal files in C:/Temp/PixStack.                                      *)
(*                                                                         *)
(* The unnamed source file holds the stacking script twice: lines 1-112   *)
(* (with the completion signal block) and lines 113-207 (without it).     *)
(* `variant` says which of the two definitions of main() a run executes.  *)
(***************************************************************************)
EXTENDS Integers, Sequences, FiniteSets, TLC

\* ------------------------------------------------------------------ bounds
\* Largest number of entries of input_files.json.
MaxFiles == 3
\* Largest number of consecutive runs of the launch helper.
MaxBootRuns == 5
\* Largest number of suffix tokens appended to a stem to build a base path.
MaxSuffixes == 2

VARIABLES
    \* --- the job: the two JSON documents on disk (never written by a script)
    stage,          \* "calibration" | "integration"
    variant,        \* which definition of the stacking main(): 1 or 2
    inputState,     \* input_files.json: "missing" | "malformed" | "ok"
    nFiles,         \* number of entries of input_files.json when it parses
    paramState,     \* params.json: "missing" | "malformed" | "ok"
    paramKeys,      \* keys present in params.json when it parses
    outputPathCfg,  \* value of params.output_path when the key is present
    \* --- one run of main()
    pc,             \* position in main()
    status,         \* "running" | "normal" | "exit1" | "uncaught"
    error,          \* what ended the run abnormally, "none" otherwise
    inputFiles,     \* local inputFiles
    outputPath,     \* local outputPath: [defined, val]
    frames,         \* P.images / P.targetFrames
    engineCalls,    \* calls of P.executeGlobal()
    engineOutcome,  \* "none" | "raised" | "returned"
    win,            \* local win: "unset" | "null" | "window"
    finalPath,      \* local finalPath
    saveCalls,      \* calls of win.saveAs()
    saveOutcome,    \* "none" | "raised" | "returned"
    sigCaught,      \* the catch block of the signal code ran
    sentinelWritten,\* this run created the completion signal file
    \* --- the shared working directory
    dirExists,      \* C:/Temp/PixStack exists
    files,          \* signal file name -> content
    ioFailed,       \* an I/O call of the current signal block raised
    \* --- the launch helper
    bootPc,
    bootRuns,
    bootPropagated, \* an exception left the helper's try block uncaught
    mkdirOnExisting,\* createDirectory was called on an existing directory
    \* --- output-path resolution applied to a base path
    p, r1, r2, ppc

jobVars   == <<stage, variant, inputState, nFiles, paramState, paramKeys, outputPathCfg>>
runVars   == <<pc, status, error, inputFiles, outputPath, frames, engineCalls,
               engineOutcome, win, finalPath, saveCalls, saveOutcome, sigCaught,
               sentinelWritten>>
fsVars    == <<dirExists, files, ioFailed>>
bootVars  == <<bootPc, bootRuns, bootPropagated, mkdirOnExisting>>
pathVars  == <<p, r1, r2, ppc>>
vars      == <<jobVars, runVars, fsVars, bootVars, pathVars>>

\* ------------------------------------------------------- strings and paths
\* A string is a sequence of one-character strings.
DotFits == <<".", "f", "i", "t", "s">>

LowerChar(c) ==
    CASE c = "F" -> "f"
      [] c = "I" -> "i"
      [] c = "T" -> "t"
      [] c = "S" -> "s"
      [] c = "C" -> "c"
      [] OTHER   -> c

toLowerCase(s) == [i \in 1..Len(s) |-> LowerChar(s[i])]

endsWith(s, suf) ==
    /\ Len(s) >= Len(suf)
    /\ SubSeq(s, Len(s) - Len(suf) + 1, Len(s)) = suf

\* s.slice(0, -k)
sliceOff(s, k) == IF Len(s) > k THEN SubSeq(s, 1, Len(s) - k) ELSE <<>>

\* Mutant: the suffix test without toLowerCase().
ResolveCaseSensitive(op) ==
    (IF endsWith(op, DotFits) THEN sliceOff(op, 5) ELSE op) \o DotFits

\* Mutant: one character too few is sliced off.
ResolveSliceFour(op) ==
    (IF endsWith(toLowerCase(op), DotFits) THEN sliceOff(op, 4) ELSE op) \o DotFits

\* base = outputPath.toLowerCase().endsWith(".fits") ? outputPath.slice(0,-5)
\*                                                   : outputPath;
\* finalPath = base + ".fits"
ResolveOutputPath(op) ==
    (IF endsWith(toLowerCase(op), DotFits) THEN sliceOff(op, 5) ELSE op) \o DotFits


\* Base paths: a stem followed by at most MaxSuffixes suffix tokens.
Stems == { <<>>, <<"x">>, <<"/", "x", "/", "i", "m", "g">> }

SuffixTokens ==
    { <<".", "f", "i", "t", "s">>,
      <<".", "F", "I", "T", "S">>,
      <<".", "F", "i", "t", "s">>,
      <<".", "f", "i", "t">>,
      <<"f", "i", "t", "s">>,
      <<".", "x", "i", "s", "f">> }

RECURSIVE SuffixChains(_)
SuffixChains(k) ==
    IF k = 0 THEN { <<>> }
    ELSE SuffixChains(k - 1) \cup
         { c \o t : c \in SuffixChains(k - 1), t \in SuffixTokens }

BasePaths == { st \o c : st \in Stems, c \in SuffixChains(MaxSuffixes) }

\* Values of params.output_path used by the stage runs.
StagePaths ==
    { <<"C", ":", "/", "o", "u", "t", "/", "s", "t", "a", "c", "k">>,
      <<"C", ":", "/", "o", "u", "t", "/", "s", "t", "a", "c", "k", ".", "F", "I", "T", "S">> }

\* ------------------------------------------------------------ file system
LaunchFile == "launch_done.tmp"
StackFile  == "basic_stack_complete.tmp"
SignalFiles == {LaunchFile, StackFile}

NoFile    == [exists |-> FALSE, text |-> <<>>]
EmptyFile == [exists |-> TRUE,  text |-> <<>>]
DoneFile  == [exists |-> TRUE,  text |-> <<"done">>]

\* file.createForWriting(filePath): the file exists and is empty.
createForWriting(fs, name) == [fs EXCEPT ![name] = EmptyFile]

\* file.outTextLn("done"): one line of text is appended.
outTextLn(fs, name, line) == [fs EXCEPT ![name].text = Append(@, line)]

\* --------------------------------------------------------------- the job
Stages == {"calibration", "integration"}

StageKeys(s) ==
    IF s = "integration" THEN {"output_path"}
    ELSE {"master_flat", "master_dark", "output_dir", "prefix"}

\* The count below which main() calls exit(1).
MinInputs(s) == IF s = "integration" THEN 2 ELSE 1

\* readJson(path): what it throws for a file in state st, "none" when it
\* returns the parsed value.
readJson(st) ==
    CASE st = "missing"   -> "ConfigMissing"
      [] st = "malformed" -> "ConfigMalformed"
      [] OTHER            -> "none"

InitJob ==
    /\ stage \in Stages
    /\ variant \in (IF stage = "integration" THEN {1, 2} ELSE {1})
    /\ inputState \in {"missing", "malformed", "ok"}
    /\ nFiles \in (IF inputState = "ok" THEN 0..MaxFiles ELSE {0})
    /\ paramState \in {"missing", "malformed", "ok"}
    /\ paramKeys \in (IF paramState = "ok" THEN SUBSET StageKeys(stage) ELSE {{}})
    /\ outputPathCfg \in (IF "output_path" \in paramKeys THEN StagePaths ELSE {<<>>})

InitRun ==
    /\ pc = "load_inputs"
    /\ status = "running"
    /\ error = "none"
    /\ inputFiles = <<>>
    /\ outputPath = [defined |-> FALSE, val |-> <<>>]
    /\ frames = <<>>
    /\ engineCalls = 0
    /\ engineOutcome = "none"
    /\ win = "unset"
    /\ finalPath = <<>>
    /\ saveCalls = 0
    /\ saveOutcome = "none"
    /\ sigCaught = FALSE
    /\ sentinelWritten = FALSE

IdleJob ==
    /\ stage = "calibration" /\ variant = 1
    /\ inputState = "missing" /\ nFiles = 0
    /\ paramState = "missing" /\ paramKeys = {} /\ outputPathCfg = <<>>

IdleBoot ==
    /\ bootPc = "idle" /\ bootRuns = 0
    /\ bootPropagated = FALSE /\ mkdirOnExisting = FALSE

IdlePath == p = <<>> /\ r1 = <<>> /\ r2 = <<>> /\ ppc = "idle"

\* The working directory and the signal files as a script finds them: a
\* signal file of an earlier run may still be there.
InitFs ==
    /\ dirExists \in BOOLEAN
    /\ files \in [SignalFiles -> {NoFile, DoneFile}]
    /\ (~dirExists => \A f \in SignalFiles : files[f] = NoFile)
    /\ ioFailed = FALSE

\* input_files.json and params.json live in the working directory: it exists
\* whenever one of them does.
InitStageFs ==
    /\ InitFs
    /\ (inputState # "missing" \/ paramState # "missing") => dirExists

\* ------------------------------------------------------ a run of main()
\* throw: the exception leaves main(), which no caller catches.
Throw(kind) ==
    /\ pc' = "done"
    /\ status' = "uncaught"
    /\ error' = kind

\* exit(1)
Exit1(kind) ==
    /\ pc' = "done"
    /\ status' = "exit1"
    /\ error' = kind

\* main() returns.
Return ==
    /\ pc' = "done"
    /\ status' = "normal"
    /\ UNCHANGED error

Goto(l) ==
    /\ pc' = l
    /\ UNCHANGED <<status, error>>

\* let inputFiles = readJson(inputFilePath);
LoadInputs ==
    /\ pc = "load_inputs"
    /\ IF readJson(inputState) # "none"
       THEN Throw(readJson(inputState)) /\ UNCHANGED inputFiles
       ELSE /\ inputFiles' = [i \in 1..nFiles |-> i]
            /\ Goto(IF stage = "calibration" THEN "check_inputs" ELSE "load_params")
    /\ UNCHANGED <<outputPath, frames, engineCalls, engineOutcome, win, finalPath,
                   saveCalls, saveOutcome, sigCaught, sentinelWritten>>
    /\ UNCHANGED <<jobVars, fsVars, bootVars, pathVars>>

\* let params = readJson(paramFilePath);
\* the stacking script reads params.json before it counts the input files,
\* the calibration script after.
LoadParams ==
    /\ pc = "load_params"
    /\ IF readJson(paramState) # "none"
       THEN Throw(readJson(paramState))
       ELSE Goto(IF stage = "calibration" THEN "setup" ELSE "check_inputs")
    /\ UNCHANGED <<inputFiles, outputPath, frames, engineCalls, engineOutcome, win,
                   finalPath, saveCalls, saveOutcome, sigCaught, sentinelWritten>>
    /\ UNCHANGED <<jobVars, fsVars, bootVars, pathVars>>

\* Mutant: the count is logged but the script goes on.
CheckInputsNoExit ==
    /\ pc = "check_inputs"
    /\ Goto(IF stage = "calibration" THEN "load_params" ELSE "setup")
    /\ UNCHANGED <<inputFiles, outputPath, frames, engineCalls, engineOutcome, win,
                   finalPath, saveCalls, saveOutcome, sigCaught, sentinelWritten>>
    /\ UNCHANGED <<jobVars, fsVars, bootVars, pathVars>>

\* if (!inputFiles || inputFiles.length < N) { ...; exit(1); }
CheckInputs ==
    /\ pc = "check_inputs"
    /\ IF Len(inputFiles) < MinInputs(stage)
       THEN Exit1("InsufficientInputs")
       ELSE Goto(IF stage = "calibration" THEN "load_params" ELSE "setup")
    /\ UNCHANGED <<inputFiles, outputPath, frames, engineCalls, engineOutcome, win,
                   finalPath, saveCalls, saveOutcome, sigCaught, sentinelWritten>>
    /\ UNCHANGED <<jobVars, fsVars, bootVars, pathVars>>

\* The locals read from params (an absent key reads as undefined, and nothing
\* checks it) and the process instance with its frame list.
Setup ==
    /\ pc = "setup"
    /\ outputPath' = IF stage = "integration" /\ "output_path" \in paramKeys
                     THEN [defined |-> TRUE, val |-> outputPathCfg]
                     ELSE [defined |-> FALSE, val |-> <<>>]
    /\ frames' = [i \in 1..Len(inputFiles) |-> [enabled |-> TRUE, path |-> inputFiles[i]]]
    /\ Goto("execute")
    /\ UNCHANGED <<inputFiles, engineCalls, engineOutcome, win, finalPath,
                   saveCalls, saveOutcome, sigCaught, sentinelWritten>>
    /\ UNCHANGED <<jobVars, fsVars, bootVars, pathVars>>

\* Where main() goes on after the if/else on the active window: the first
\* definition writes the completion signal, the second returns.
AfterSave == IF variant = 1 THEN Goto("sig_dir") ELSE Return

\* Mutant: a raising engine call is tried once more.
ExecuteRetry ==
    /\ pc = "execute"
    /\ engineCalls' = engineCalls + 1
    /\ \E out \in {"raised", "returned"} :
         /\ engineOutcome' = out
         /\ IF out = "raised"
            THEN IF engineCalls = 0 THEN Goto("execute")
                 ELSE Throw("EngineInvocationFailed")
            ELSE IF stage = "calibration" THEN Return ELSE Goto("query")
    /\ UNCHANGED <<inputFiles, outputPath, frames, win, finalPath,
                   saveCalls, saveOutcome, sigCaught, sentinelWritten>>
    /\ UNCHANGED <<jobVars, fsVars, bootVars, pathVars>>

\* P.executeGlobal(): the one blocking engine call; it raises or returns.
\* The calibration script ends after it.
Execute ==
    /\ pc = "execute"
    /\ engineCalls' = engineCalls + 1
    /\ \E out \in {"raised", "returned"} :
         /\ engineOutcome' = out
         /\ IF out = "raised"
            THEN Throw("EngineInvocationFailed")
            ELSE IF stage = "calibration" THEN Return ELSE Goto("query")
    /\ UNCHANGED <<inputFiles, outputPath, frames, win, finalPath,
                   saveCalls, saveOutcome, sigCaught, sentinelWritten>>
    /\ UNCHANGED <<jobVars, fsVars, bootVars, pathVars>>

\* Mutant: a null window is only logged and main() goes on.
QueryWindowNoThrow ==
    /\ pc = "query"
    /\ \E w \in {"null", "window"} :
         /\ win' = w
         /\ IF w = "null" THEN AfterSave ELSE Goto("resolve")
    /\ UNCHANGED <<inputFiles, outputPath, frames, engineCalls, engineOutcome,
                   finalPath, saveCalls, saveOutcome, sigCaught, sentinelWritten>>
    /\ UNCHANGED <<jobVars, fsVars, bootVars, pathVars>>

\* Mutant: the completion signal is written before the image is saved.
QueryWindowSignalFirst ==
    /\ pc = "query"
    /\ \E w \in {"null", "window"} :
         /\ win' = w
         /\ IF w = "null" THEN Throw("NoActiveResult") ELSE AfterSave
    /\ UNCHANGED <<inputFiles, outputPath, frames, engineCalls, engineOutcome,
                   finalPath, saveCalls, saveOutcome, sigCaught, sentinelWritten>>
    /\ UNCHANGED <<jobVars, fsVars, bootVars, pathVars>>

\* let win = ImageWindow.activeWindow; if (!win.isNull) {...} else throw
QueryWindow ==
    /\ pc = "query"
    /\ \E w \in {"null", "window"} :
         /\ win' = w
         /\ IF w = "null" THEN Throw("NoActiveResult") ELSE Goto("resolve")
    /\ UNCHANGED <<inputFiles, outputPath, frames, engineCalls, engineOutcome,
                   finalPath, saveCalls, saveOutcome, sigCaught, sentinelWritten>>
    /\ UNCHANGED <<jobVars, fsVars, bootVars, pathVars>>

\* base/finalPath from outputPath; outputPath.toLowerCase() on an undefined
\* outputPath raises a TypeError.
ResolvePath ==
    /\ pc = "resolve"
    /\ IF outputPath.defined
       THEN finalPath' = ResolveOutputPath(outputPath.val) /\ Goto("save")
       ELSE Throw("TypeError") /\ UNCHANGED finalPath
    /\ UNCHANGED <<inputFiles, outputPath, frames, engineCalls, engineOutcome, win,
                   saveCalls, saveOutcome, sigCaught, sentinelWritten>>
    /\ UNCHANGED <<jobVars, fsVars, bootVars, pathVars>>

\* win.saveAs(finalPath, false, false, false, false): it raises or returns.
Save ==
    /\ pc = "save"
    /\ saveCalls' = saveCalls + 1
    /\ \E out \in {"raised", "returned"} :
         /\ saveOutcome' = out
         /\ IF out = "raised" THEN Throw("SaveFailed") ELSE AfterSave
    /\ UNCHANGED <<inputFiles, outputPath, frames, engineCalls, engineOutcome, win,
                   finalPath, sigCaught, sentinelWritten>>
    /\ UNCHANGED <<jobVars, fsVars, bootVars, pathVars>>

\* ------------------------------- the completion signal block of main()
\* catch (error) { console.writeln(...) }: the error is logged and main()
\* returns normally.
SigCatch ==
    /\ ioFailed' = TRUE
    /\ sigCaught' = TRUE
    /\ Return

\* if (!File.directoryExists(scriptDir)) File.createDirectory(scriptDir);
SigEnsureDir ==
    /\ pc = "sig_dir"
    /\ IF dirExists
       THEN Goto("sig_create") /\ UNCHANGED <<dirExists, ioFailed, sigCaught>>
       ELSE \E ok \in BOOLEAN :
              IF ok THEN /\ dirExists' = TRUE
                         /\ Goto("sig_create")
                         /\ UNCHANGED <<ioFailed, sigCaught>>
                    ELSE SigCatch /\ UNCHANGED dirExists
    /\ UNCHANGED <<inputFiles, outputPath, frames, engineCalls, engineOutcome, win,
                   finalPath, saveCalls, saveOutcome, sentinelWritten, files>>
    /\ UNCHANGED <<jobVars, bootVars, pathVars>>

\* file.createForWriting(filePath)
SigCreate ==
    /\ pc = "sig_create"
    /\ \E ok \in BOOLEAN :
         IF ok THEN /\ files' = createForWriting(files, StackFile)
                    /\ sentinelWritten' = TRUE
                    /\ Goto("sig_write")
                    /\ UNCHANGED <<ioFailed, sigCaught>>
               ELSE SigCatch /\ UNCHANGED <<files, sentinelWritten>>
    /\ UNCHANGED <<inputFiles, outputPath, frames, engineCalls, engineOutcome, win,
                   finalPath, saveCalls, saveOutcome, dirExists>>
    /\ UNCHANGED <<jobVars, bootVars, pathVars>>

\* Mutant: the text is never written to the created file.
SigWriteNothing ==
    /\ pc = "sig_write"
    /\ Goto("sig_close")
    /\ UNCHANGED <<inputFiles, outputPath, frames, engineCalls, engineOutcome, win,
                   finalPath, saveCalls, saveOutcome, sentinelWritten, sigCaught>>
    /\ UNCHANGED <<jobVars, fsVars, bootVars, pathVars>>

\* file.outTextLn("done")
SigWrite ==
    /\ pc = "sig_write"
    /\ \E ok \in BOOLEAN :
         IF ok THEN /\ files' = outTextLn(files, StackFile, "done")
                    /\ Goto("sig_close")
                    /\ UNCHANGED <<ioFailed, sigCaught>>
               ELSE SigCatch /\ UNCHANGED files
    /\ UNCHANGED <<inputFiles, outputPath, frames, engineCalls, engineOutcome, win,
                   finalPath, saveCalls, saveOutcome, sentinelWritten, dirExists>>
    /\ UNCHANGED <<jobVars, bootVars, pathVars>>

\* file.close(); console.writeln("Signal file created successfully ...")
SigClose ==
    /\ pc = "sig_close"
    /\ \E ok \in BOOLEAN :
         IF ok THEN Return /\ UNCHANGED <<ioFailed, sigCaught>>
               ELSE SigCatch
    /\ UNCHANGED <<inputFiles, outputPath, frames, engineCalls, engineOutcome, win,
                   finalPath, saveCalls, saveOutcome, sentinelWritten, dirExists, files>>
    /\ UNCHANGED <<jobVars, bootVars, pathVars>>

\* ------------------------------------------- specification of a stage run
Init ==
    /\ InitJob
    /\ InitRun
    /\ InitStageFs
    /\ IdleBoot
    /\ IdlePath

Next ==
    \/ LoadInputs
    \/ LoadParams
    \/ CheckInputs
    \/ Setup
    \/ Execute
    \/ QueryWindow
    \/ ResolvePath
    \/ Save
    \/ SigEnsureDir
    \/ SigCreate
    \/ SigWrite
    \/ SigClose

Spec == Init /\ [][Next]_vars

\* ------------------------------------------------------ the launch helper
\* catch (error) { console.writeln("Error creating signal file: ...") }
BootCatch ==
    /\ ioFailed' = TRUE
    /\ bootPc' = "end"
    /\ UNCHANGED bootPropagated

\* The helper script is run (again).
BootStart ==
    /\ bootPc \in {"idle", "end"}
    /\ bootRuns < MaxBootRuns
    /\ bootRuns' = bootRuns + 1
    /\ bootPc' = "dir"
    /\ ioFailed' = FALSE
    /\ UNCHANGED <<bootPropagated, mkdirOnExisting, dirExists, files>>
    /\ UNCHANGED <<jobVars, runVars, pathVars>>

\* Mutant: the directory is created outside the try block and without the
\* directoryExists test.
BootEnsureDirUnguarded ==
    /\ bootPc = "dir"
    /\ mkdirOnExisting' = (mkdirOnExisting \/ dirExists)
    /\ \E ok \in BOOLEAN :
         IF ok THEN /\ dirExists' = TRUE
                    /\ bootPc' = "create"
                    /\ UNCHANGED <<ioFailed, bootPropagated>>
               ELSE /\ ioFailed' = TRUE
                    /\ bootPc' = "end"
                    /\ bootPropagated' = TRUE
                    /\ UNCHANGED dirExists
    /\ UNCHANGED <<bootRuns, files>>
    /\ UNCHANGED <<jobVars, runVars, pathVars>>

\* if (!File.directoryExists(scriptDir)) File.createDirectory(scriptDir);
BootEnsureDir ==
    /\ bootPc = "dir"
    /\ IF dirExists
       THEN /\ bootPc' = "create"
            /\ UNCHANGED <<dirExists, ioFailed, bootPropagated>>
       ELSE \E ok \in BOOLEAN :
              IF ok THEN /\ dirExists' = TRUE
                         /\ bootPc' = "create"
                         /\ UNCHANGED <<ioFailed, bootPropagated>>
                    ELSE BootCatch /\ UNCHANGED dirExists
    /\ UNCHANGED <<bootRuns, mkdirOnExisting, files>>
    /\ UNCHANGED <<jobVars, runVars, pathVars>>

\* let file = new File(); file.createForWriting(filePath);
BootCreate ==
    /\ bootPc = "create"
    /\ \E ok \in BOOLEAN :
         IF ok THEN /\ files' = createForWriting(files, LaunchFile)
                    /\ bootPc' = "write"
                    /\ UNCHANGED <<ioFailed, bootPropagated>>
               ELSE BootCatch /\ UNCHANGED files
    /\ UNCHANGED <<bootRuns, mkdirOnExisting, dirExists>>
    /\ UNCHANGED <<jobVars, runVars, pathVars>>

\* file.outTextLn("done");
BootWrite ==
    /\ bootPc = "write"
    /\ \E ok \in BOOLEAN :
         IF ok THEN /\ files' = outTextLn(files, LaunchFile, "done")
                    /\ bootPc' = "close"
                    /\ UNCHANGED <<ioFailed, bootPropagated>>
               ELSE BootCatch /\ UNCHANGED files
    /\ UNCHANGED <<bootRuns, mkdirOnExisting, dirExists>>
    /\ UNCHANGED <<jobVars, runVars, pathVars>>

\* file.close(); console.writeln("Signal file created successfully ...")
BootClose ==
    /\ bootPc = "close"
    /\ \E ok \in BOOLEAN :
         IF ok THEN /\ bootPc' = "end"
                    /\ UNCHANGED <<ioFailed, bootPropagated>>
               ELSE BootCatch
    /\ UNCHANGED <<bootRuns, mkdirOnExisting, dirExists, files>>
    /\ UNCHANGED <<jobVars, runVars, pathVars>>

InitBoot ==
    /\ IdleJob
    /\ InitRun
    /\ InitFs
    /\ IdleBoot
    /\ IdlePath

NextBoot ==
    \/ BootStart
    \/ BootEnsureDir
    \/ BootCreate
    \/ BootWrite
    \/ BootClose

SpecBoot == InitBoot /\ [][NextBoot]_vars

\* ------------------------------------- output-path resolution on its own
\* finalPath of a base path.
ResolveOnce ==
    /\ ppc = "start"
    /\ r1' = ResolveOutputPath(p)
    /\ ppc' = "once"
    /\ UNCHANGED <<p, r2>>
    /\ UNCHANGED <<jobVars, runVars, fsVars, bootVars>>

\* finalPath of that finalPath (a second run given the first run's result).
ResolveTwice ==
    /\ ppc = "once"
    /\ r2' = ResolveOutputPath(r1)
    /\ ppc' = "twice"
    /\ UNCHANGED <<p, r1>>
    /\ UNCHANGED <<jobVars, runVars, fsVars, bootVars>>

InitPath ==
    /\ IdleJob
    /\ InitRun
    /\ dirExists = FALSE
    /\ files = [f \in SignalFiles |-> NoFile]
    /\ ioFailed = FALSE
    /\ IdleBoot
    /\ p \in BasePaths
    /\ r1 = <<>>
    /\ r2 = <<>>
    /\ ppc = "start"

NextPath ==
    \/ ResolveOnce
    \/ ResolveTwice

SpecPath == InitPath /\ [][NextPath]_vars


\* =================================================================== claims
SigPcs == {"sig_dir", "sig_create", "sig_write", "sig_close"}

\* A configuration the integration stage accepts: both files parse, at least
\* two input files, output_path present.
ValidIntegration ==
    /\ stage = "integration"
    /\ inputState = "ok" /\ nFiles >= 2
    /\ paramState = "ok" /\ "output_path" \in paramKeys

\* input_files.json parses and holds fewer entries than the stage needs.
TooFewInputs ==
    /\ inputState = "ok"
    /\ nFiles < (IF stage = "integration" THEN 2 ELSE 1)

\* C1 (as claimed): with too few input files, whatever the state of
\* params.json, the run ends with InsufficientInputs and exit status 1, and
\* the engine is never invoked.
C1_InsufficientInputsWhateverParams ==
    TooFewInputs =>
        /\ engineCalls = 0
        /\ (pc = "done" => error = "InsufficientInputs" /\ status = "exit1")

\* C2: in an integration run with a valid configuration the engine is invoked
\* exactly once (never twice, and once by the time the run ends), the save is
\* issued at most once, only after the engine call returned with a non-null
\* window, and exactly once by the end of every run whose window was non-null.
C2_EngineOnceSaveOnce ==
    ValidIntegration =>
        /\ engineCalls <= 1
        /\ saveCalls <= 1
        /\ (saveCalls = 1 => engineCalls = 1 /\ engineOutcome = "returned" /\ win = "window")
        /\ (pc \in SigPcs \cup {"done"} => engineCalls = 1)
        /\ (pc \in SigPcs \cup {"done"} /\ win = "window" => saveCalls = 1)

C2_Witness ==
    /\ ValidIntegration
    /\ pc = "done" /\ status = "normal"
    /\ engineCalls = 1 /\ win = "window" /\ saveCalls = 1

\* C3 (as claimed): when params.json parses but lacks a key the stage needs
\* (and the input files suffice), the engine is never invoked and the run ends
\* with ConfigIncomplete.
C3_MissingKeyAbortsBeforeEngine ==
    (/\ paramState = "ok"
     /\ paramKeys # StageKeys(stage)
     /\ inputState = "ok"
     /\ ~TooFewInputs) =>
        /\ engineCalls = 0
        /\ (pc = "done" => error = "ConfigIncomplete")

\* What makes a run fail, other than writing a signal file: a configuration
\* file the run reads is missing or malformed, too few inputs, the engine call
\* raised, no active window, the save raised.
FatalCause ==
    \/ inputState # "ok"
    \/ TooFewInputs
    \/ paramState # "ok"
    \/ engineOutcome = "raised"
    \/ win = "null"
    \/ saveOutcome = "raised"

IntegrationSucceeded ==
    /\ stage = "integration"
    /\ pc = "done"
    /\ engineOutcome = "returned" /\ win = "window" /\ saveOutcome = "returned"

C6_NoActiveResult ==
    win = "null" =>
        /\ engineOutcome = "returned"
        /\ pc = "done"
        /\ error = "NoActiveResult"
        /\ status = "uncaught"
        /\ saveCalls = 0
        /\ ~sentinelWritten

C6_Witness ==
    /\ win = "null" /\ pc = "done" /\ engineCalls = 1

\* C7: resolving a resolved path changes nothing.
C7_ResolveIdempotent ==
    ppc = "twice" => r2 = r1

C7_Witness ==
    /\ ppc = "twice"
    /\ endsWith(p, <<".", "f", "i", "t", "s", ".", "F", "I", "T", "S">>)
    /\ r2 = r1

\* The spellings of the known suffix, whatever the case of its letters.
FitsSpellings ==
    { <<".", a, b, c, d>> : a \in {"f", "F"}, b \in {"i", "I"},
                            c \in {"t", "T"}, d \in {"s", "S"} }

\* C8: the resolved path is the base path with one trailing spelling of
\* ".fits" replaced by ".fits", and the base path followed by ".fits" when it
\* ends with none; "/x/img.FITS" and "/x/img" both give "/x/img.fits".
C8_ResolveStripsOnce ==
    ppc # "start" =>
        /\ \A k \in 0..Len(p) :
             (SubSeq(p, k + 1, Len(p)) \in FitsSpellings)
                 => r1 = SubSeq(p, 1, k) \o <<".", "f", "i", "t", "s">>
        /\ (\A k \in 0..Len(p) : SubSeq(p, k + 1, Len(p)) \notin FitsSpellings)
                 => r1 = p \o <<".", "f", "i", "t", "s">>
        /\ (p = <<"/", "x", "/", "i", "m", "g", ".", "F", "I", "T", "S">>
                 => r1 = <<"/", "x", "/", "i", "m", "g", ".", "f", "i", "t", "s">>)
        /\ (p = <<"/", "x", "/", "i", "m", "g">>
                 => r1 = <<"/", "x", "/", "i", "m", "g", ".", "f", "i", "t", "s">>)

C8_Witness ==
    /\ ppc = "once"
    /\ p = <<"/", "x", "/", "i", "m", "g", ".", "F", "I", "T", "S">>
    /\ r1 = <<"/", "x", "/", "i", "m", "g", ".", "f", "i", "t", "s">>

\* C9: no exception leaves the launch helper, createDirectory is never called
\* on an existing directory, a started run can always take its next step, and
\* a run in which no I/O call raised ends with launch_done.tmp holding "done".
C9_BootNeverPropagates ==
    /\ ~bootPropagated
    /\ ~mkdirOnExisting
    /\ (bootPc \notin {"idle", "end"} => ENABLED NextBoot)
    /\ (bootPc = "end" /\ ~ioFailed => dirExists /\ files[LaunchFile] = DoneFile)

C9_Witness ==
    /\ bootRuns >= 2
    /\ bootPc = "end"
    /\ ~ioFailed
    /\ files[LaunchFile] = DoneFile

\* C10: whenever this run has created the completion signal file, the engine
\* call has returned, the window was non-null and the save has returned; the
\* signal block is entered only after the save; an aborted run has written no
\* signal; and no step removes a signal file that exists.
C10_SentinelOnlyAfterSave ==
    /\ [](/\ sentinelWritten =>
               /\ stage = "integration"
               /\ engineOutcome = "returned"
               /\ win = "window"
               /\ saveOutcome = "returned"
          /\ (pc \in SigPcs => saveOutcome = "returned")
          /\ (status \in {"exit1", "uncaught"} => ~sentinelWritten))
    /\ [][\A f \in SignalFiles : files[f].exists => files'[f].exists]_vars

C10_Witness ==
    /\ sentinelWritten
    /\ pc = "sig_write"
    /\ saveOutcome = "returned"

====
